---------------------------- MODULE Spec2Model ----------------------------
(***************************************************************************)
(* Model of src/main.py (Lichess Game Metrics Explorer): the PGN record    *)
(* parser pgn_to_dataframe, the opening ranking get_most_favorite_openings *)
(* and the percentage display of main's "Individual Game Modes" branch.    *)
(*                                                                         *)
(* A Python str is a sequence of one-character strings.  A dict is a       *)
(* function whose DOMAIN is its key set.                                   *)
(***************************************************************************)
EXTENDS Integers, Sequences, FiniteSets, TLC

VARIABLES
    pc,                    \* position of the running function
    pgn_file,              \* pgn_to_dataframe: its argument
    game_lines,            \* pgn_to_dataframe: blocks still to be parsed
    games_data,            \* pgn_to_dataframe: records parsed so far
    pos,                   \* get_most_favorite_openings: index of the next (mode, color) pair
    favorite_openings_df,  \* get_most_favorite_openings: the ranked table
    errors,                \* st.error messages issued, in order
    log,                   \* history: one entry per (mode, color) pair processed
    metrics,               \* main: metrics["Games Played"], ["Wins"], ["Draws"], ["Losses"]
    selected_game_mode,    \* main: index of the mode picked in the select box
    cols,                  \* main: what col2/col3/col4 show as "Win %", "Draw %", "Loss %"
    divided                \* main: whether a division by Games Played was evaluated

vars == <<pc, pgn_file, game_lines, games_data, pos, favorite_openings_df,
          errors, log, metrics, selected_game_mode, cols, divided>>

parserVars == <<pgn_file, game_lines, games_data>>
rankerVars == <<pos, favorite_openings_df, errors, log>>
mainVars   == <<metrics, selected_game_mode, cols, divided>>

-----------------------------------------------------------------------------
(* Python str primitives                                                   *)

NL == "\n"
QUOTE == "\""
SPACE == " "

Min(S) == CHOOSE x \in S : \A y \in S : x <= y

\* sub occurs in s at index i
MatchAt(s, sub, i) ==
    /\ i + Len(sub) - 1 <= Len(s)
    /\ \A j \in 1..Len(sub) : s[i + j - 1] = sub[j]

\* c in s  (one character)
Contains(s, c) == \E i \in 1..Len(s) : s[i] = c

\* s.split(sep): leftmost, non-overlapping occurrences of sep; always at
\* least one piece
RECURSIVE SplitFrom(_, _, _)
SplitFrom(s, sep, i) ==
    LET M == {j \in i..Len(s) : MatchAt(s, sep, j)}
    IN  IF M = {} THEN <<SubSeq(s, i, Len(s))>>
        ELSE LET j == Min(M)
             IN  <<SubSeq(s, i, j - 1)>> \o SplitFrom(s, sep, j + Len(sep))

Split(s, sep) == SplitFrom(s, sep, 1)

\* s.strip(chars): removes leading and trailing characters that are in chars
Strip(s, chars) ==
    LET keep == {i \in 1..Len(s) : s[i] \notin chars}
    IN  IF keep = {} THEN <<>>
        ELSE SubSeq(s, Min(keep), CHOOSE m \in keep : \A k \in keep : k <= m)

Whitespace == {SPACE, NL, "\t", "\r"}

-----------------------------------------------------------------------------
(* pgn_to_dataframe                                                        *)

BlockSep == <<NL, NL, NL>>

\* mutant of DropLast: game_lines[:] (nothing dropped)
DropLastKeepsAll(segs) == segs

\* game_lines[:-1]: the last split segment is dropped whatever it holds
DropLast(segs) == SubSeq(segs, 1, Len(segs) - 1)

\* lines 61-62
GameLines(text) == DropLast(Split(text, BlockSep))

\* line 69: "[" in line and "]" in line
HasBrackets(line) == Contains(line, "[") /\ Contains(line, "]")

\* line 70, right-hand side: line.split("[")[1].split("]")[0].split(" \"")
TagParts(line) ==
    Split(Split(Split(line, <<"[">>)[2], <<"]">>)[1], <<SPACE, QUOTE>>)

\* line 70, the unpacking "key, value = ...": ValueError unless two parts
UnpackRaises(line) == Len(TagParts(line)) # 2

\* line 71: game_info[key.strip()] = value.strip(" \"")
TagKey(line) == Strip(TagParts(line)[1], Whitespace)
TagValue(line) == Strip(TagParts(line)[2], {SPACE, QUOTE})

SetItem(d, k, v) == (k :> v) @@ d

NoDict == <<>>   \* {}: the function with the empty domain

\* lines 65-71 for one block: [raised |-> ValueError?, info |-> game_info]
RECURSIVE ParseLines(_, _, _)
ParseLines(lines, i, game_info) ==
    IF i > Len(lines) THEN [raised |-> FALSE, info |-> game_info]
    ELSE IF ~HasBrackets(lines[i]) THEN ParseLines(lines, i + 1, game_info)
    ELSE IF UnpackRaises(lines[i]) THEN [raised |-> TRUE, info |-> game_info]
    ELSE ParseLines(lines, i + 1,
                    SetItem(game_info, TagKey(lines[i]), TagValue(lines[i])))

ParseGame(game) == ParseLines(Split(game, <<NL>>), 1, NoDict)

\* lines 64-73 over all blocks
RECURSIVE ParseGames(_, _, _)
ParseGames(blocks, i, data) ==
    IF i > Len(blocks) THEN [raised |-> FALSE, games |-> data]
    ELSE LET g == ParseGame(blocks[i])
         IN  IF g.raised THEN [raised |-> TRUE, games |-> data]
             ELSE ParseGames(blocks, i + 1, Append(data, g.info))

\* the whole function: [raised, games]; games is the list handed to
\* pd.DataFrame when raised is FALSE
pgn_to_dataframe(text) == ParseGames(GameLines(text), 1, <<>>)

-----------------------------------------------------------------------------
(* Bulk texts the parser is run on                                         *)

MaxPieces == 4

OpeningKey == <<"O", "p", "e", "n", "i", "n", "g">>
ResultKey == <<"R", "e", "s", "u", "l", "t">>

\* the text of a tag line  [Key "Value"]
TagLine(key, val) == <<"[">> \o key \o <<SPACE, QUOTE>> \o val \o <<QUOTE, "]">>

OpeningLine(name) == TagLine(OpeningKey, <<name>>)
ResultLine == TagLine(ResultKey, <<"1", "-", "0">>)
MoveText == <<"1", ".", SPACE, "e", "4">>
NoValueLine == <<"[", "K", "]">>                         \* [K]
ThreePartLine == TagLine(<<"K">>, <<"a", SPACE, QUOTE, "b">>)  \* [K "a "b"]

Pieces ==
    { OpeningLine("a"), OpeningLine("b"), ResultLine, MoveText,
      NoValueLine, ThreePartLine, <<NL>>, BlockSep }

RECURSIVE Flatten(_)
Flatten(ss) == IF ss = <<>> THEN <<>> ELSE Head(ss) \o Flatten(Tail(ss))

Texts == { Flatten(ps) : ps \in UNION { [1..n -> Pieces] : n \in 0..MaxPieces } }

-----------------------------------------------------------------------------
(* pgn_to_dataframe, one step per statement group                          *)

\* line 60-62
ParseSplit ==
    /\ pc = "parse_start"
    /\ game_lines' = GameLines(pgn_file)
    /\ games_data' = <<>>
    /\ pc' = "parse_loop"
    /\ UNCHANGED <<pgn_file, rankerVars, mainVars>>

\* lines 64-73, one block: the block parsed is number Len(games_data) + 1
ParseBlock ==
    /\ pc = "parse_loop"
    /\ Len(games_data) < Len(game_lines)
    /\ LET g == ParseGame(game_lines[Len(games_data) + 1])
       IN  IF g.raised
           THEN pc' = "parse_raised" /\ UNCHANGED games_data
           ELSE pc' = "parse_loop" /\ games_data' = Append(games_data, g.info)
    /\ UNCHANGED <<pgn_file, game_lines, rankerVars, mainVars>>

\* line 75
ParseReturn ==
    /\ pc = "parse_loop"
    /\ Len(games_data) = Len(game_lines)
    /\ pc' = "parse_returned"
    /\ UNCHANGED <<parserVars, rankerVars, mainVars>>

-----------------------------------------------------------------------------
(* pandas operations used by get_most_favorite_openings, on the list of    *)
(* dicts handed to pd.DataFrame                                            *)

\* DataFrame.columns: the union of the dicts' keys
Columns(games) == UNION {DOMAIN games[i] : i \in 1..Len(games)}

\* DataFrame.empty: no rows, or no columns (every dict is {}); a frame
\* without rows has no columns either
DfEmpty(games) == Columns(games) = {}

\* whether df[key] exists; df[key] raises KeyError otherwise
HasColumn(games, key) == key \in Columns(games)

\* the non-NaN cells of df[key], in row order (value_counts drops NaN)
RECURSIVE ColumnFrom(_, _, _)
ColumnFrom(games, key, i) ==
    IF i > Len(games) THEN <<>>
    ELSE (IF key \in DOMAIN games[i] THEN <<games[i][key]>> ELSE <<>>)
         \o ColumnFrom(games, key, i + 1)

Column(games, key) == ColumnFrom(games, key, 1)

Range(col) == {col[i] : i \in 1..Len(col)}

\* the number of cells of col holding v
CountOf(col, v) == Cardinality({i \in 1..Len(col) : col[i] = v})

\* Series.value_counts(): one entry per distinct value, sorted by count
\* descending.  pandas sorts with sort_values' default kind (quicksort, not
\* stable), so the relative order of values with equal counts is not fixed
\* by the call: every count-descending order is a possible result.
RECURSIVE SortedOrders(_, _)
SortedOrders(col, S) ==
    IF S = {} THEN {<<>>}
    ELSE LET most == {v \in S : \A w \in S : CountOf(col, w) <= CountOf(col, v)}
         IN  UNION { { <<[opening |-> v, count |-> CountOf(col, v)]>> \o rest :
                        rest \in SortedOrders(col, S \ {v}) } : v \in most }

ValueCounts(col) == SortedOrders(col, Range(col))

\* Series.head(n)
HeadN(series, n) == SubSeq(series, 1, IF n < Len(series) THEN n ELSE Len(series))

-----------------------------------------------------------------------------
(* get_most_favorite_openings                                              *)

NumModes == 2

\* mutant of top_n: one more row per group
TopNOffByOne == 5 + 1

top_n == 5

piece_colors == <<"white", "black">>

AllGameModes == <<"ultraBullet", "bullet", "blitz", "rapid", "classical">>

\* the game_modes argument: the first NumModes of main's five modes
game_modes == SubSeq(AllGameModes, 1, NumModes)

\* the (mode, color) pairs in the order of the nested loops, lines 107-108
NumPairs == Len(game_modes) * Len(piece_colors)
ModeOf(p) == game_modes[((p - 1) \div Len(piece_colors)) + 1]
ColorOf(p) == piece_colors[((p - 1) % Len(piece_colors)) + 1]

\* a game as the export writes it: tags, blank line, moves, block separator
Game(name) ==
    ResultLine \o <<NL>> \o OpeningLine(name) \o <<NL, NL>> \o MoveText \o BlockSep

ResultOnlyGame == ResultLine \o <<NL, NL>> \o MoveText \o BlockSep

Games(names) == Flatten([i \in 1..Len(names) |-> Game(names[i])])

\* response.text of the responses with status 200 the model draws from
ResponseText ==
    [ empty      |-> <<>>,
      no_tags    |-> MoveText \o BlockSep,
      no_opening |-> ResultOnlyGame \o ResultOnlyGame,
      malformed  |-> Game("a") \o NoValueLine \o BlockSep,
      few        |-> Games(<<"a", "a", "b">>),
      tie5       |-> Games(<<"a", "b", "c", "c", "d", "d", "d",
                             "e", "e", "e", "e">>),
      six        |-> Games(<<"a", "b", "b", "c", "c", "c">>) \o ResultOnlyGame
                     \o Games(<<"d", "d", "d", "d", "e", "e", "e", "e", "e",
                                "f", "f", "f", "f", "f", "f">>) ]

Responses == DOMAIN ResponseText

FailStatus == {404}

\* line 114, per response
Parsed == [r \in Responses |-> pgn_to_dataframe(ResponseText[r])]

\* line 116: the possible values of top_openings, per response
TopOpenings ==
    [r \in Responses |->
        { HeadN(vc, top_n) : vc \in ValueCounts(Column(Parsed[r].games, OpeningKey)) }]

\* lines 117-122: pd.DataFrame of four columns; the first two have top_n
\* cells, the last two Len(top) cells; ValueError unless the lengths agree
FrameRaises(top) == Len(top) # top_n

OpeningsDf(mode, color, top) ==
    [i \in 1..Len(top) |->
        [index |-> i - 1, GameMode |-> mode, Piece |-> color,
         Opening |-> top[i].opening, GamesPlayed |-> top[i].count]]

\* mutant of Concat: pd.concat([openings_df, favorite_openings_df])
ConcatFront(df, more) == more \o df

\* line 123: pd.concat keeps each frame's rows and index
Concat(df, more) == df \o more

\* line 130: reset_index(drop=True)
ResetIndex(df) == [i \in 1..Len(df) |-> [df[i] EXCEPT !.index = i - 1]]

LogEntry(p, status, r, n, top, exc) ==
    [mode |-> ModeOf(p), color |-> ColorOf(p), status |-> status,
     response |-> r, records |-> n, top |-> top, exc |-> exc]

\* mutant of FetchFailed: the failure ends the loop unreported, as a
\* "return" in the else branch would
FetchFailedReturns ==
    /\ pc = "rank_loop"
    /\ pos <= NumPairs
    /\ \E status \in FailStatus :
          log' = Append(log, LogEntry(pos, status, "none", 0, <<>>, "none"))
    /\ favorite_openings_df' = ResetIndex(favorite_openings_df)
    /\ pc' = "rank_returned"
    /\ UNCHANGED <<pos, errors, parserVars, mainVars>>

\* lines 110-112, 127-128: status other than 200
FetchFailed ==
    /\ pc = "rank_loop"
    /\ pos <= NumPairs
    /\ \E status \in FailStatus :
          log' = Append(log, LogEntry(pos, status, "none", 0, <<>>, "none"))
    /\ errors' = Append(errors, [mode |-> ModeOf(pos), color |-> ColorOf(pos)])
    /\ pos' = pos + 1
    /\ UNCHANGED <<pc, favorite_openings_df, parserVars, mainVars>>

\* lines 112-115: status 200 and pgn_dataframe.empty
ProcessEmpty ==
    /\ pc = "rank_loop"
    /\ pos <= NumPairs
    /\ \E r \in Responses :
          /\ ~Parsed[r].raised
          /\ DfEmpty(Parsed[r].games)
          /\ log' = Append(log, LogEntry(pos, 200, r, Len(Parsed[r].games),
                                         <<>>, "none"))
    /\ pos' = pos + 1
    /\ UNCHANGED <<pc, favorite_openings_df, errors, parserVars, mainVars>>

\* lines 112-123: status 200, rows appended
ProcessAppend ==
    /\ pc = "rank_loop"
    /\ pos <= NumPairs
    /\ \E r \in Responses :
          /\ ~Parsed[r].raised
          /\ ~DfEmpty(Parsed[r].games)
          /\ HasColumn(Parsed[r].games, OpeningKey)
          /\ \E top \in TopOpenings[r] :
                /\ ~FrameRaises(top)
                /\ favorite_openings_df' =
                       Concat(favorite_openings_df,
                              OpeningsDf(ModeOf(pos), ColorOf(pos), top))
                /\ log' = Append(log, LogEntry(pos, 200, r, Len(Parsed[r].games),
                                               top, "none"))
    /\ pos' = pos + 1
    /\ UNCHANGED <<pc, errors, parserVars, mainVars>>

\* the exception a response with status 200 makes lines 114-122 raise, or
\* "none"
Raises(r) ==
    IF Parsed[r].raised THEN "ValueError"                       \* line 70
    ELSE IF DfEmpty(Parsed[r].games) THEN "none"
    ELSE IF ~HasColumn(Parsed[r].games, OpeningKey) THEN "KeyError"  \* line 116
    ELSE IF \E top \in TopOpenings[r] : FrameRaises(top) THEN "ValueError" \* line 117
    ELSE "none"

\* lines 112-122: status 200 and an exception leaves the function
ProcessRaise ==
    /\ pc = "rank_loop"
    /\ pos <= NumPairs
    /\ \E r \in Responses :
          /\ Raises(r) # "none"
          /\ log' = Append(log, LogEntry(pos, 200, r,
                                         IF Parsed[r].raised THEN 0
                                         ELSE Len(Parsed[r].games),
                                         <<>>, Raises(r)))
    /\ pc' = "rank_raised"
    /\ UNCHANGED <<pos, favorite_openings_df, errors, parserVars, mainVars>>

\* lines 130-131
Return ==
    /\ pc = "rank_loop"
    /\ pos > NumPairs
    /\ favorite_openings_df' = ResetIndex(favorite_openings_df)
    /\ pc' = "rank_returned"
    /\ UNCHANGED <<pos, errors, log, parserVars, mainVars>>

-----------------------------------------------------------------------------
(* main, "Individual Game Modes": lines 256-292                            *)

MaxGames == 3

\* the value shown by col.metric: None, or a number of tenths of a percent
None == <<>>
Some(x) == <<x>>

\* what get_game_metrics returns with status 200: the counts of the
\* statistics endpoint
MetricTuples ==
    { t \in [games : 0..MaxGames, wins : 0..MaxGames,
             draws : 0..MaxGames, losses : 0..MaxGames] :
        t.wins + t.draws + t.losses <= t.games }

NoMetrics == [games |-> <<>>, wins |-> <<>>, draws |-> <<>>, losses |-> <<>>]

\* round(float(count / games * 100), 1), in tenths of a percent: the nearest
\* tenth, an exact half going to the even tenth
RoundedPct(count, games) ==
    LET q == (1000 * count) \div games
        r == (1000 * count) % games
    IN  IF 2 * r > games \/ (2 * r = games /\ q % 2 = 1) THEN q + 1 ELSE q

\* line 284: truth value of metrics['Games Played'][idx]
HasGames(games) == games # 0

\* lines 258-263
GetMetricsOk ==
    /\ pc = "main_fetch"
    /\ Len(metrics.games) < Len(game_modes)
    /\ \E t \in MetricTuples :
          metrics' = [games  |-> Append(metrics.games, t.games),
                      wins   |-> Append(metrics.wins, t.wins),
                      draws  |-> Append(metrics.draws, t.draws),
                      losses |-> Append(metrics.losses, t.losses)]
    /\ UNCHANGED <<pc, selected_game_mode, cols, divided, parserVars, rankerVars>>

\* lines 264-266: get_game_metrics returned None; st.error and return
GetMetricsFailed ==
    /\ pc = "main_fetch"
    /\ Len(metrics.games) < Len(game_modes)
    /\ pc' = "main_failed"
    /\ errors' = Append(errors, [mode |-> game_modes[Len(metrics.games) + 1],
                                 color |-> "none"])
    /\ UNCHANGED <<mainVars, parserVars, pos, favorite_openings_df, log>>

\* mutant of ShowPercentages: the zero case shown as a computed 0.0%
ShowPercentagesZero ==
    /\ pc = "main_fetch"
    /\ Len(metrics.games) = Len(game_modes)
    /\ LET idx == selected_game_mode
           g == metrics.games[idx]
       IN  IF HasGames(g)
           THEN /\ cols' = [win  |-> Some(RoundedPct(metrics.wins[idx], g)),
                            draw |-> Some(RoundedPct(metrics.draws[idx], g)),
                            loss |-> Some(RoundedPct(metrics.losses[idx], g))]
                /\ divided' = TRUE
           ELSE /\ cols' = [win |-> Some(0), draw |-> Some(0), loss |-> Some(0)]
                /\ divided' = FALSE
    /\ pc' = "main_shown"
    /\ UNCHANGED <<metrics, selected_game_mode, parserVars, rankerVars>>

\* lines 272-292
ShowPercentages ==
    /\ pc = "main_fetch"
    /\ Len(metrics.games) = Len(game_modes)
    /\ LET idx == selected_game_mode
           g == metrics.games[idx]
       IN  IF HasGames(g)
           THEN /\ cols' = [win  |-> Some(RoundedPct(metrics.wins[idx], g)),
                            draw |-> Some(RoundedPct(metrics.draws[idx], g)),
                            loss |-> Some(RoundedPct(metrics.losses[idx], g))]
                /\ divided' = TRUE
           ELSE /\ cols' = [win |-> None, draw |-> None, loss |-> None]
                /\ divided' = FALSE
    /\ pc' = "main_shown"
    /\ UNCHANGED <<metrics, selected_game_mode, parserVars, rankerVars>>

-----------------------------------------------------------------------------
(* Specifications                                                          *)

Idle ==
    /\ pgn_file = <<>>
    /\ game_lines = <<>>
    /\ games_data = <<>>
    /\ pos = 1
    /\ favorite_openings_df = <<>>
    /\ errors = <<>>
    /\ log = <<>>
    /\ metrics = NoMetrics
    /\ selected_game_mode = 1
    /\ cols = [win |-> None, draw |-> None, loss |-> None]
    /\ divided = FALSE

\* get_most_favorite_openings(username, game_modes), lines 102-105 done
Init ==
    /\ pc = "rank_loop"
    /\ Idle

Next == FetchFailed \/ ProcessEmpty \/ ProcessAppend \/ ProcessRaise \/ Return

Spec == Init /\ [][Next]_vars

\* pgn_to_dataframe(pgn_file) for every bulk text of Texts
InitParse ==
    /\ pc = "parse_start"
    /\ pgn_file \in Texts
    /\ game_lines = <<>>
    /\ games_data = <<>>
    /\ pos = 1
    /\ favorite_openings_df = <<>>
    /\ errors = <<>>
    /\ log = <<>>
    /\ metrics = NoMetrics
    /\ selected_game_mode = 1
    /\ cols = [win |-> None, draw |-> None, loss |-> None]
    /\ divided = FALSE

NextParse == ParseSplit \/ ParseBlock \/ ParseReturn

SpecParse == InitParse /\ [][NextParse]_vars

\* main with "Individual Game Modes", a username and "Get Metrics" pressed
InitMain ==
    /\ pc = "main_fetch"
    /\ selected_game_mode \in 1..Len(game_modes)
    /\ pgn_file = <<>>
    /\ game_lines = <<>>
    /\ games_data = <<>>
    /\ pos = 1
    /\ favorite_openings_df = <<>>
    /\ errors = <<>>
    /\ log = <<>>
    /\ metrics = NoMetrics
    /\ cols = [win |-> None, draw |-> None, loss |-> None]
    /\ divided = FALSE

NextMain == GetMetricsOk \/ GetMetricsFailed \/ ShowPercentages

SpecMain == InitMain /\ [][NextMain]_vars

-----------------------------------------------------------------------------
(* Properties of pgn_to_dataframe (SpecParse)                              *)

Last(seq) == seq[Len(seq)]

\* a tag line of the shape [Key "Value"]: brackets, and one key and one
\* quoted value between them
WellFormed(line) == HasBrackets(line) /\ Len(TagParts(line)) = 2

\* the block holds a game: at least one well-formed tag line
HoldsGame(block) ==
    LET lines == Split(block, <<NL>>)
    IN  {i \in 1..Len(lines) : WellFormed(lines[i])} # {}

\* C1: a bulk text whose last block is non-empty (here: holds a game) and is
\* not followed by a block separator yields as many records as the same text
\* with a separator appended (wherever that parse completes), and its last
\* split segment is not dropped.
C1_TrailingBlockKept ==
    (pc \in {"parse_loop", "parse_returned"}
        /\ HoldsGame(Last(Split(pgn_file, BlockSep))))
    => /\ Len(game_lines) = Len(Split(pgn_file, BlockSep))
       /\ LET again == pgn_to_dataframe(pgn_file \o BlockSep)
          IN  (pc = "parse_returned" /\ ~again.raised)
              => Len(games_data) = Len(again.games)

\* the tags of the well-formed tag lines of a block, later lines winning
RECURSIVE TagsFrom(_, _, _)
TagsFrom(lines, i, info) ==
    IF i > Len(lines) THEN info
    ELSE TagsFrom(lines, i + 1,
                  IF WellFormed(lines[i])
                  THEN SetItem(info, TagKey(lines[i]), TagValue(lines[i]))
                  ELSE info)

WellFormedTags(block) == TagsFrom(Split(block, <<NL>>), 1, NoDict)

\* C3: a malformed tag line is skipped: parsing never aborts, and every
\* block parsed yields the record of its well-formed tag lines.
C3_MalformedSkipped ==
    /\ pc # "parse_raised"
    /\ pc = "parse_returned"
       => games_data = [i \in 1..Len(game_lines) |-> WellFormedTags(game_lines[i])]

-----------------------------------------------------------------------------
(* Properties of get_most_favorite_openings (Spec)                         *)

\* a row without its index label
Row(mode, color, opening, count) ==
    [GameMode |-> mode, Piece |-> color, Opening |-> opening, GamesPlayed |-> count]

NoIndex(df) ==
    [i \in 1..Len(df) |->
        Row(df[i].GameMode, df[i].Piece, df[i].Opening, df[i].GamesPlayed)]

\* the rows of the table that belong to the group (mode, color)
Group(df, mode, color) ==
    SelectSeq(NoIndex(df), LAMBDA row : row.GameMode = mode /\ row.Piece = color)

\* the rows a processed pair stands for: its aggregate, tagged
TaggedRows(e) ==
    [i \in 1..Len(e.top) |-> Row(e.mode, e.color, e.top[i].opening, e.top[i].count)]

RECURSIVE SumCounts(_)
SumCounts(rows) ==
    IF rows = <<>> THEN 0 ELSE Head(rows).GamesPlayed + SumCounts(Tail(rows))

\* the Opening values of a response's corpus, in parse order
Openings(r) == Column(Parsed[r].games, OpeningKey)

FirstIndex(col, v) == Min({i \in 1..Len(col) : col[i] = v})

\* C2: a corpus with k distinct openings, 1 <= k < 5, is aggregated without
\* error into exactly those k openings with their counts, and its group has
\* exactly k rows.
C2_FewerThanTopN ==
    \A i \in 1..Len(log) :
        LET e == log[i]
            k == Cardinality(Range(Openings(e.response)))
        IN  (e.status = 200 /\ ~Parsed[e.response].raised /\ 1 <= k /\ k < 5)
            => /\ e.exc = "none"
               /\ Len(e.top) = k
               /\ \A j \in 1..Len(e.top) :
                     e.top[j].count = CountOf(Openings(e.response), e.top[j].opening)
               /\ Len(Group(favorite_openings_df, e.mode, e.color)) = k

\* C4: a corpus holding records without an "Opening" tag never makes
\* aggregation fail: the records count toward the corpus size, the counts
\* are those of the records that have the tag, and the loop goes on.
C4_MissingOpeningTolerated ==
    \A i \in 1..Len(log) :
        LET e == log[i]
            games == Parsed[e.response].games
        IN  (e.status = 200 /\ ~Parsed[e.response].raised
                /\ {j \in 1..Len(games) : OpeningKey \notin DOMAIN games[j]} # {})
            => /\ e.exc = "none"
               /\ e.records = Len(games)
               /\ \A j \in 1..Len(e.top) :
                     e.top[j].count = CountOf(Openings(e.response), e.top[j].opening)

IsPrefix(a, b) == Len(a) <= Len(b) /\ SubSeq(b, 1, Len(a)) = a

\* the rank of a (mode, color) pair: modes in the caller's order, and within
\* a mode white before black
ModeRank(mode) == CHOOSE m \in 1..Len(game_modes) : game_modes[m] = mode

PairIndex(mode, color) == 2 * ModeRank(mode) + (IF color = "white" THEN 0 ELSE 1)

\* groups in processing order, each contiguous: the pair index never
\* decreases from a row to the next
GroupsInOrder(df) ==
    \A a \in 1..(Len(df) - 1) :
        PairIndex(df[a].GameMode, df[a].Piece)
            <= PairIndex(df[a + 1].GameMode, df[a + 1].Piece)

\* C6: the groups of the ranked table appear in the order the (mode, color)
\* pairs were processed, each group contiguous, its rows in the order the
\* aggregator produced; a step never reorders or changes the rows already in
\* the table, and the rows it adds are the aggregate of the pair it processed.
C6_MergeKeepsOrder ==
    [][ LET old == NoIndex(favorite_openings_df)
            new == NoIndex(favorite_openings_df')
        IN  /\ IsPrefix(old, new)
            /\ new = IF Len(log') > Len(log)
                     THEN old \o TaggedRows(Last(log'))
                     ELSE old
            /\ GroupsInOrder(new) ]_vars

C6_Witness ==
    /\ pc = "rank_returned"
    /\ \E a, b \in 1..Len(favorite_openings_df) :
          /\ a < b
          /\ favorite_openings_df[a].GameMode # favorite_openings_df[b].GameMode
    /\ \E a, b \in 1..Len(favorite_openings_df) :
          /\ a < b
          /\ favorite_openings_df[a].GameMode = favorite_openings_df[b].GameMode
          /\ favorite_openings_df[a].Piece = "white"
          /\ favorite_openings_df[b].Piece = "black"

\* C7: every group of the ranked table has at most 5 rows, every count is a
\* non-negative integer, and the counts of a group sum to at most the number
\* of records parsed for the group's corpus.
C7_GroupBounds ==
    \A p \in 1..NumPairs :
        LET rows == Group(favorite_openings_df, ModeOf(p), ColorOf(p))
        IN  /\ Len(rows) <= 5
            /\ \A i \in 1..Len(rows) : rows[i].GamesPlayed \in Nat
            /\ rows # <<>> =>
                  /\ p <= Len(log)
                  /\ SumCounts(rows) <= log[p].records
                  /\ log[p].records = Len(Parsed[log[p].response].games)

C7_Witness ==
    /\ pc = "rank_returned"
    /\ \E p, q \in 1..NumPairs :
          /\ Len(Group(favorite_openings_df, ModeOf(p), ColorOf(p))) = 5
          /\ SumCounts(Group(favorite_openings_df, ModeOf(p), ColorOf(p)))
                 < log[p].records
          /\ SumCounts(Group(favorite_openings_df, ModeOf(q), ColorOf(q)))
                 = log[q].records
          /\ log[q].records > 0

\* the table a history of pairs stands for: the tagged aggregates of its
\* entries, in processing order
RECURSIVE TableOf(_)
TableOf(entries) ==
    IF entries = <<>> THEN <<>>
    ELSE TaggedRows(Head(entries)) \o TableOf(Tail(entries))

\* the corpus of a response with status 200 is empty
EmptyCorpus(r) == ~Parsed[r].raised /\ DfEmpty(Parsed[r].games)

\* C8: the empty bulk text parses to no record; a pair whose corpus is empty
\* adds no row and raises no error, and the table holds the rows of the
\* other pairs as if the pair had not been processed.
C8_EmptyCorpusNoRows ==
    \A i \in 1..Len(log) :
        LET e == log[i]
        IN  /\ (e.status = 200 /\ ResponseText[e.response] = <<>>)
               => e.records = 0 /\ EmptyCorpus(e.response)
            /\ (e.status = 200 /\ EmptyCorpus(e.response))
               => /\ e.exc = "none"
                  /\ (i < Len(log) \/ pc # "rank_raised")
                  /\ Group(favorite_openings_df, e.mode, e.color) = <<>>
                  /\ NoIndex(favorite_openings_df)
                        = TableOf(SelectSeq(log, LAMBDA x : x # e))

C8_Witness ==
    /\ pc = "rank_returned"
    /\ \E i, j, k \in 1..Len(log) :
          /\ i < j /\ j < k
          /\ log[i].top # <<>>
          /\ log[j].status = 200 /\ ResponseText[log[j].response] = <<>>
          /\ log[k].top # <<>>

\* C10: a failed fetch (status other than 200) adds no row, is reported by
\* one error, and the loop goes on to the next pair; the returned table
\* holds exactly the rows of the pairs whose fetch succeeded, in processing
\* order.
C10_FailedFetchSkipped ==
    LET failed == SelectSeq(log, LAMBDA e : e.status # 200)
    IN  /\ errors = [i \in 1..Len(failed) |->
                        [mode |-> failed[i].mode, color |-> failed[i].color]]
        /\ \A i \in 1..Len(log) :
              log[i].status # 200
              => /\ Group(favorite_openings_df, log[i].mode, log[i].color) = <<>>
                 /\ pos > i
                 /\ (i < Len(log) \/ pc # "rank_raised")
        /\ pc = "rank_returned"
           => /\ Len(log) = NumPairs
              /\ \A i \in 1..NumPairs :
                    log[i].mode = ModeOf(i) /\ log[i].color = ColorOf(i)
              /\ NoIndex(favorite_openings_df)
                    = TableOf(SelectSeq(log, LAMBDA e : e.status = 200))
              /\ \A i \in 1..Len(favorite_openings_df) :
                    favorite_openings_df[i].index = i - 1

C10_Witness ==
    /\ pc = "rank_returned"
    /\ \E i, j, k \in 1..Len(log) :
          /\ i < j /\ j < k
          /\ log[i].top # <<>>
          /\ log[j].status # 200
          /\ log[k].top # <<>>

-----------------------------------------------------------------------------
(* Properties of main's percentage display (SpecMain)                      *)

Abs(x) == IF x < 0 THEN -x ELSE x

\* shown is count / games * 100 to one decimal place: a number of tenths
\* within half a tenth of the exact ratio
IsPctOf(shown, count, games) ==
    /\ shown # None
    /\ 2 * Abs(shown[1] * games - 1000 * count) <= games

\* C9: when Games Played of the selected mode is 0, "Win %", "Draw %" and
\* "Loss %" all show no value (never 0.0%) and no division is evaluated; when
\* it is positive, each shows count / games_played * 100 (to the one decimal
\* place displayed).
C9_PercentagesDefined ==
    pc = "main_shown"
    => LET idx == selected_game_mode
           g == metrics.games[idx]
       IN  /\ g = 0 => /\ cols = [win |-> None, draw |-> None, loss |-> None]
                       /\ cols.win # Some(0)
                       /\ ~divided
           /\ g > 0 => /\ IsPctOf(cols.win, metrics.wins[idx], g)
                       /\ IsPctOf(cols.draw, metrics.draws[idx], g)
                       /\ IsPctOf(cols.loss, metrics.losses[idx], g)

C9_Witness ==
    /\ pc = "main_shown"
    /\ metrics.games[selected_game_mode] = 0
    /\ cols.win = None
    /\ \E m \in 1..Len(metrics.games) : metrics.games[m] > 0

=============================================================================
